---- MODULE Spec2Model ----
(***************************************************************************)
(* Model of beamprofiler/beamprofileranalysis.py: ROI extraction, image    *)
(* moments, the iterative D4-sigma beam-width estimator, and the           *)
(* sort / per-frame / fit pipeline of the script.                          *)
(*                                                                         *)
(* Numbers.  Python floats are modelled in fixed point: a length v in      *)
(* pixels is the integer v*Scale, a second moment (pixel^2) is the integer *)
(* v*Scale*Scale.  NaN is the integer NaN, outside the range of every      *)
(* finite value the model computes; every arithmetic operator propagates   *)
(* it and every comparison with it is FALSE, as in IEEE arithmetic.        *)
(* Arrays are records [rows, cols, px] with px a function of <<row, col>>, *)
(* indexed from 0 as in numpy.                                             *)
(***************************************************************************)
EXTENDS Integers, Sequences, FiniteSets, TLC

Scale == 100
NaN == -1000000000

IsNaN(v) == v = NaN

FAdd(a, b) == IF IsNaN(a) \/ IsNaN(b) THEN NaN ELSE a + b
FSub(a, b) == IF IsNaN(a) \/ IsNaN(b) THEN NaN ELSE a - b
FHalf(a) == IF IsNaN(a) THEN NaN ELSE a \div 2
FGt(a, b) == ~IsNaN(a) /\ ~IsNaN(b) /\ a > b
FLe(a, b) == ~IsNaN(a) /\ ~IsNaN(b) /\ a <= b
FAbs(a) == IF IsNaN(a) THEN NaN ELSE IF a < 0 THEN -a ELSE a

\* Python's min(a, b): b if b < a, else a (so a NaN first argument is kept)
PyMin(a, b) == IF FGt(a, b) THEN b ELSE a

\* np.int / int(): truncation toward zero of a finite fixed-point length
PyInt(v) == IF v >= 0 THEN v \div Scale ELSE -((-v) \div Scale)

Min2(a, b) == IF a < b THEN a ELSE b
Max2(a, b) == IF a > b THEN a ELSE b

RECURSIVE ISqrtBS(_, _, _)
ISqrtBS(n, lo, hi) ==
    IF lo >= hi THEN lo
    ELSE LET mid == (lo + hi + 1) \div 2
         IN IF mid * mid <= n THEN ISqrtBS(n, mid, hi) ELSE ISqrtBS(n, lo, mid - 1)

\* floor of the square root; np.sqrt(NaN) is NaN
FSqrtInt(n) == IF IsNaN(n) THEN NaN ELSE ISqrtBS(n, 0, Min2(n, 46340))

RECURSIVE SumFn(_, _)
SumFn(f, S) ==
    IF S = {} THEN 0
    ELSE LET x == CHOOSE y \in S : TRUE IN f[x] + SumFn(f, S \ {x})

(***************************************************************************)
(* Arrays and numpy basic slicing                                          *)
(***************************************************************************)
Cells(h, w) == (0 .. (h - 1)) \X (0 .. (w - 1))

\* a Python slice bound i on an axis of length n
SliceBound(i, n) == IF i < 0 THEN Max2(i + n, 0) ELSE Min2(i, n)

\* data[start : start+len] on an axis of length n: first index and count
SliceStart(start, len, n) == SliceBound(start, n)
SliceLen(start, len, n) ==
    Max2(SliceBound(start + len, n) - SliceBound(start, n), 0)

(***************************************************************************)
(* get_roi (lines 298-341).  The code treats the two axes alike; RoiAxis   *)
(* is the per-axis computation: c the requested centre, ext the requested  *)
(* extent (fixed point or NaN), n = data.shape on that axis.               *)
(***************************************************************************)
RoiAxis(c, ext, n) ==
    LET e0 == FSub(c, FHalf(ext))
        e1 == PyMin(e0, (n - 2) * Scale)
        le == FLe(e1, 0)
        edge == IF le THEN 0 ELSE IF IsNaN(e1) THEN 0 ELSE PyInt(e1)
        w1 == IF le THEN FAdd(ext, e1) ELSE ext
        over == FGt(FAdd(edge * Scale, w1), n * Scale)
        w2 == IF over THEN n - edge ELSE IF IsNaN(w1) THEN n ELSE PyInt(w1)
    IN [start |-> edge, len |-> w2]

\* roi = <<x0, width, y0, height>>; the result names the slice the code
\* takes (left, width, bottom, height as passed to data[...]) and the
\* sub-array numpy returns for it
get_roi(data, roi) ==
    LET ax == RoiAxis(roi[1], roi[2], data.cols)
        ay == RoiAxis(roi[3], roi[4], data.rows)
        c0 == SliceStart(ax.start, ax.len, data.cols)
        nc == SliceLen(ax.start, ax.len, data.cols)
        r0 == SliceStart(ay.start, ay.len, data.rows)
        nr == SliceLen(ay.start, ay.len, data.rows)
    IN [left |-> ax.start, width |-> ax.len,
        bottom |-> ay.start, height |-> ay.len,
        arr |-> [rows |-> nr, cols |-> nc,
                 px |-> [p \in Cells(nr, nc) |->
                            data.px[<<p[1] + r0, p[2] + c0>>]]]]

(***************************************************************************)
(* calculate_2D_moments (lines 264-295), called with the default           *)
(* axes_scale = [1,1] and calc_2nd_moments = True as at line 224.          *)
(* x = arange(cols), y = arange(rows); np.gradient of either is all ones,  *)
(* and np.gradient raises on an axis with fewer than 2 elements.           *)
(* Centroids are lengths (Scale), second moments are areas (Scale*Scale).  *)
(***************************************************************************)
\* numpy float division n/d for the sums below: 0/0 is NaN
FDiv(n, d) == IF IsNaN(n) \/ d = 0 THEN NaN ELSE n \div d

\* total weighted intensity A = sum(data*dx*dy) of line 279
TotalIntensity(data) == SumFn(data.px, Cells(data.rows, data.cols))

\* lines 288-292, given the total A and the centroid of lines 279-283
SecondMoments(data, C, A, avgx, avgy) ==
    IF IsNaN(avgx) \/ IsNaN(avgy)
    THEN <<avgx, avgy, NaN, NaN, NaN>>
    ELSE <<avgx, avgy,
           FDiv(SumFn([p \in C |-> data.px[p] * (p[2] * Scale - avgx)
                                              * (p[2] * Scale - avgx)], C), A),
           FDiv(SumFn([p \in C |-> data.px[p] * (p[1] * Scale - avgy)
                                              * (p[1] * Scale - avgy)], C), A),
           FDiv(SumFn([p \in C |-> data.px[p] * (p[2] * Scale - avgx)
                                              * (p[1] * Scale - avgy)], C), A)>>

\* lines 279-283
FirstMoments(data, C, A) ==
    SecondMoments(data, C, A,
                  FDiv(SumFn([p \in C |-> data.px[p] * p[2]], C) * Scale, A),
                  FDiv(SumFn([p \in C |-> data.px[p] * p[1]], C) * Scale, A))

calculate_2D_moments(data) ==
    IF data.rows < 2 \/ data.cols < 2
    THEN [exc |-> "ValueError", m |-> <<>>]
    ELSE [exc |-> "none",
          m |-> FirstMoments(data, Cells(data.rows, data.cols), TotalIntensity(data))]

(***************************************************************************)
(* calculate_beamwidths (lines 203-261): constants and per-line helpers.   *)
(* Relative changes are carried in units of 1e-4, rounded up, so that      *)
(* "err > error_limit" is exact.                                           *)
(***************************************************************************)
error_limit == 1
it_limit == 5
ErrOne == 10000
Inf == 999999999

\* 4*np.sqrt(moments[2]) : an area (Scale*Scale) to a length (Scale)
D4Sigma(sig2) == IF IsNaN(sig2) THEN NaN ELSE 4 * FSqrtInt(sig2)

\* np.abs(dx-d0x)/d0x of lines 229-230
RelChange(d, d0) ==
    IF IsNaN(d) \/ IsNaN(d0) THEN NaN
    ELSE IF d0 = 0 THEN (IF d = 0 THEN NaN ELSE Inf)
    ELSE (FAbs(d - d0) * ErrOne + d0 - 1) \div d0

\* the while condition of line 220
LoopCondition(ex, ey) == FGt(ex, error_limit) \/ FGt(ey, error_limit)

FMul3(d) == IF IsNaN(d) THEN NaN ELSE 3 * d

\* line 235: next centre on one axis, from the centroid m, the requested
\* centre c and the requested extent ext of this iteration
NextCentre(m, c, ext) == FAdd(FAdd(m, c), IF IsNaN(ext) THEN NaN ELSE -FHalf(ext))

RoiNew(m, r, dx, dy) ==
    <<NextCentre(m[1], r[1], r[2]), FMul3(dx),
      NextCentre(m[2], r[3], r[4]), FMul3(dy)>>

\* lines 244-247: pixels to length.  Physical lengths are kept in units of
\* PIXSIZE/Scale and physical areas in units of PIXSIZE^2/Scale.
PhysMoments(m) ==
    <<m[1], m[2], FDiv(m[3], Scale), FDiv(m[4], Scale), FDiv(m[5], Scale)>>

FSign(v) == IF IsNaN(v) THEN NaN ELSE IF v > 0 THEN 1 ELSE IF v < 0 THEN -1 ELSE 0

\* lines 250-252; np.sqrt of a negative number is NaN
EllipseAxis(s2x, s2y, s2xy, sgn) ==
    IF IsNaN(s2x) \/ IsNaN(s2y) \/ IsNaN(s2xy) THEN NaN
    ELSE LET g == FSign(s2x - s2y)
             disc == FSqrtInt((s2x - s2y) * (s2x - s2y) + 4 * s2xy * s2xy)
             inner == (s2x + s2y) + sgn * g * disc
         IN IF inner < 0 THEN NaN ELSE 2 * FSqrtInt(2 * inner * Scale)

\* lines 242-261: the value returned for the last iterate (phi, lines
\* 254-257, is not used by the script after the call and is not carried)
BeamwidthsReturn(r, m) ==
    LET pm == PhysMoments(m)
    IN [beamwidths |-> <<EllipseAxis(pm[3], pm[4], pm[5], 1),
                         EllipseAxis(pm[3], pm[4], pm[5], -1)>>,
        roi |-> r,
        moments |-> pm]

(***************************************************************************)
(* fit_M2 (lines 126-174).  scipy's curve_fit is outside the repository:   *)
(* its outcome cf is an input, either a failure or best-fit coefficients   *)
(* (a, b, c) within the bounds of lines 151-156 (a >= 0, c >= 0).  The     *)
(* initial guess of lines 142-149 only feeds curve_fit.  Lines 165-169 are *)
(* evaluated in order on uncertainties' float wrappers: a division by a    *)
(* zero nominal value raises ZeroDivisionError, a fractional power of a    *)
(* negative nominal value raises ValueError.  M2 is carried in units of    *)
(* pi/(8*wl).                                                              *)
(***************************************************************************)
HasNaN(dz) == \E i \in DOMAIN dz : IsNaN(dz[i])

fit_M2(dz, zz, cf) ==
    IF HasNaN(dz) THEN [status |-> "raised", exc |-> "ValueError", line |-> 160]
    ELSE IF cf.ok = FALSE THEN [status |-> "raised", exc |-> "RuntimeError", line |-> 160]
    ELSE
      LET a == cf.a
          b == cf.b
          c == cf.c
          disc == 4 * a * c - b * b
      IN IF c = 0
         THEN [status |-> "raised", exc |-> "ZeroDivisionError", line |-> 165]
         ELSE IF disc < 0
         THEN [status |-> "raised", exc |-> "ValueError", line |-> 166]
         ELSE LET sq == FSqrtInt(disc * Scale * Scale)
                  rc == FSqrtInt(c * Scale * Scale)
              IN [status |-> "returned",
                  z0 |-> (-b * Scale) \div (2 * c),
                  d0 |-> (sq * Scale) \div (2 * rc),
                  M2 |-> sq,
                  theta |-> rc,
                  zR |-> sq \div (2 * c)]

(***************************************************************************)
(* Inputs of the script                                                    *)
(***************************************************************************)
MaxFiles == 2
MaxZ == 2
MaxCoef == 1

\* an array from its rows
Arr(rs) ==
    [rows |-> Len(rs), cols |-> Len(rs[1]),
     px |-> [p \in Cells(Len(rs), Len(rs[1])) |-> rs[p[1] + 1][p[2] + 1]]]

\* Images as flatten_rgb returns them (lines 177-200, 76-89): normalised, so
\* the minimum is 0 and the maximum positive, or all ones for a uniform
\* image.  Intensities are written as integers; their common factor
\* 1/max cancels in every moment.
FrameUniform == Arr(<< <<1, 1, 1>>, <<1, 1, 1>> >>)
FrameSpot == Arr(<< <<0, 0, 0>>, <<0, 1, 0>>, <<0, 0, 0>> >>)
FrameOffset == Arr(<< <<0, 0, 5, 0>>, <<0, 0, 5, 1>>, <<0, 0, 5, 0>> >>)
FrameHalo == Arr(<< <<0, 0, 1, 0, 1>>, <<0, 0, 1, 0, 1>>,
                    <<0, 0, 1, 40, 1>>, <<0, 0, 1, 0, 1>> >>)
FrameSpeckle == Arr(<< <<0, 0, 2, 20, 0>>, <<0, 0, 0, 0, 1>>,
                       <<0, 0, 0, 1, 0>>, <<0, 0, 0, 0, 0>> >>)

\* the images a file may hold, by name, and the flattened array of each
Frames == {"uniform", "spot", "offset", "halo", "speckle"}

Image(name) ==
    CASE name = "uniform" -> FrameUniform
      [] name = "spot" -> FrameSpot
      [] name = "offset" -> FrameOffset
      [] name = "halo" -> FrameHalo
      [] name = "speckle" -> FrameSpeckle

\* outcomes of curve_fit (line 160)
FitOutcomes ==
    {[ok |-> FALSE, a |-> 0, b |-> 0, c |-> 0]} \cup
    [ok : {TRUE}, a : {0, 1}, b : {-1, 0}, c : 0 .. MaxCoef]

None == [status |-> "none"]
NoArr == [rows |-> 0, cols |-> 0, px |-> <<>>]
NoCrop == [left |-> 0, width |-> 0, bottom |-> 0, height |-> 0, arr |-> NoArr]

(***************************************************************************)
(* State                                                                   *)
(***************************************************************************)
VARIABLES
    pc,          \* position in the script
    files,       \* line 361, reordered at line 380
    position,    \* the values listed in position.txt, in file order
    z,           \* line 368, reordered at line 379
    disk,        \* disk[f]: the image held by file f, read at lines 389-390
    k,           \* index of the for loop of line 387
    beam_stats,  \* line 383; each entry also records the file it came from
    img_roi,     \* line 385
    full_data,   \* calculate_beamwidths: line 218
    roi,         \* line 222
    roi_new,     \* lines 217, 235
    d0x,         \* lines 214, 232
    d0y,         \* lines 215, 233
    errx,        \* lines 210, 229
    erry,        \* lines 211, 230
    itN,         \* lines 212, 237
    moments,     \* line 224
    crop,        \* line 223: the result of get_roi in this iteration
    printed,     \* whether line 239 has run in the current call
    ret,         \* value returned by the last calculate_beamwidths call
    fitx,        \* line 406: curve_fit outcome and fit_M2 outcome
    fity,        \* line 407
    error,       \* the uncaught exception that ended the script, if any
    fn           \* a direct call of get_roi and calculate_2D_moments

pipeVars == <<pc, files, position, z, disk, k, beam_stats, img_roi, fitx, fity, error>>
loopVars == <<full_data, roi, roi_new, d0x, d0y, errx, erry, itN, moments, crop, printed, ret>>
vars == <<pipeVars, loopVars, fn>>

NoFn == [pc |-> "off", data |-> NoArr, roi |-> <<0, 0, 0, 0>>, out |-> NoCrop,
         mom |-> [exc |-> "none", m |-> <<>>]]

LoopIdle ==
    /\ full_data = NoArr
    /\ roi = <<0, 0, 0, 0>>
    /\ roi_new = <<0, 0, 0, 0>>
    /\ d0x = 0
    /\ d0y = 0
    /\ errx = 0
    /\ erry = 0
    /\ itN = 0
    /\ moments = <<>>
    /\ crop = NoCrop
    /\ printed = FALSE
    /\ ret = None

Init ==
    /\ pc = "check"
    /\ \E nf \in 0 .. MaxFiles, np \in 0 .. MaxFiles :
          /\ files = [i \in 1 .. nf |-> i]
          /\ position \in [1 .. np -> 1 .. MaxZ]
          /\ disk \in [1 .. nf -> Frames]
    /\ z = <<>>
    /\ k = 1
    /\ beam_stats = <<>>
    /\ img_roi = <<>>
    /\ fitx = None
    /\ fity = None
    /\ error = "none"
    /\ LoopIdle
    /\ fn = NoFn

(***************************************************************************)
(* Lines 361-376: consistency checks and read_position (lines 46-73):      *)
(* z = 2*s*z, with lengths along the axis kept in units of s.              *)
(***************************************************************************)
read_position(pos) == [i \in DOMAIN pos |-> 2 * pos[i]]

CheckInputs ==
    /\ pc = "check"
    /\ IF files = <<>> \/ Len(files) # Len(position)
       THEN /\ pc' = "raised"
            /\ error' = "Exception"
            /\ z' = IF files = <<>> THEN z ELSE read_position(position)
       ELSE /\ pc' = "sort"
            /\ error' = error
            /\ z' = read_position(position)
    /\ UNCHANGED <<files, position, disk, k, beam_stats, img_roi, fitx, fity>>
    /\ UNCHANGED <<loopVars, fn>>

(***************************************************************************)
(* Lines 378-380.  np.argsort's default sort is not stable: order is any   *)
(* permutation that sorts z.                                               *)
(***************************************************************************)
ArgSorts(zz) ==
    {o \in [DOMAIN zz -> DOMAIN zz] :
        /\ \A i, j \in DOMAIN zz : i # j => o[i] # o[j]
        /\ \A i, j \in DOMAIN zz : i < j => zz[o[i]] <= zz[o[j]]}

SortedZ(zz, order) == [i \in DOMAIN order |-> zz[order[i]]]

SortedFilesUnpermuted(fs, order) == fs

SortedFiles(fs, order) == [i \in DOMAIN order |-> fs[order[i]]]

Sort ==
    /\ pc = "sort"
    /\ \E order \in ArgSorts(z) :
          /\ z' = SortedZ(z, order)
          /\ files' = SortedFiles(files, order)
    /\ pc' = "for"
    /\ UNCHANGED <<position, disk, k, beam_stats, img_roi, fitx, fity, error>>
    /\ UNCHANGED <<loopVars, fn>>

(***************************************************************************)
(* Line 387: next file, or leave the loop (lines 397-403).  Entering       *)
(* calculate_beamwidths runs lines 207-218.                                *)
(***************************************************************************)
ForNext ==
    /\ pc = "for"
    /\ IF k > Len(files)
       THEN /\ pc' = "fitx"
            /\ UNCHANGED loopVars
       ELSE /\ pc' = "while"
            /\ full_data' = Image(disk[files[k]])
            /\ d0x' = Image(disk[files[k]]).cols * Scale
            /\ d0y' = Image(disk[files[k]]).rows * Scale
            /\ errx' = ErrOne
            /\ erry' = ErrOne
            /\ itN' = 0
            /\ roi_new' = <<(Image(disk[files[k]]).cols * Scale) \div 2,
                            Image(disk[files[k]]).cols * Scale,
                            (Image(disk[files[k]]).rows * Scale) \div 2,
                            Image(disk[files[k]]).rows * Scale>>
            /\ printed' = FALSE
            /\ UNCHANGED <<roi, moments, crop, ret>>
    /\ UNCHANGED <<files, position, z, disk, k, beam_stats, img_roi, fitx, fity, error>>
    /\ UNCHANGED fn

(***************************************************************************)
(* Lines 220-240: one pass through the body of the while loop.             *)
(***************************************************************************)
\* lines 226-240, after get_roi returned g and calculate_2D_moments mo
WhileBody(r, g, mo, dx, dy) ==
    /\ roi' = r
    /\ crop' = g
    /\ moments' = mo.m
    /\ errx' = RelChange(dx, d0x)
    /\ erry' = RelChange(dy, d0y)
    /\ d0x' = dx
    /\ d0y' = dy
    /\ roi_new' = RoiNew(mo.m, r, dx, dy)
    /\ itN' = itN + 1
    /\ printed' = (itN + 1 >= it_limit)
    /\ pc' = IF itN + 1 >= it_limit THEN "post" ELSE "while"
    /\ error' = error

WhileIter ==
    /\ pc = "while"
    /\ LoopCondition(errx, erry)
    /\ \E g \in {get_roi(full_data, roi_new)} :
         \E mo \in {calculate_2D_moments(g.arr)} :
            IF mo.exc # "none"
            THEN /\ roi' = roi_new
                 /\ crop' = g
                 /\ pc' = "raised"
                 /\ error' = mo.exc
                 /\ UNCHANGED <<roi_new, d0x, d0y, errx, erry, itN, moments, printed>>
            ELSE WhileBody(roi_new, g, mo, D4Sigma(mo.m[3]), D4Sigma(mo.m[4]))
    /\ UNCHANGED <<files, position, z, disk, k, beam_stats, img_roi, fitx, fity>>
    /\ UNCHANGED <<full_data, ret, fn>>

\* line 220 evaluating to False
WhileExit ==
    /\ pc = "while"
    /\ ~LoopCondition(errx, erry)
    /\ pc' = "post"
    /\ UNCHANGED <<files, position, z, disk, k, beam_stats, img_roi, fitx, fity, error>>
    /\ UNCHANGED <<loopVars, fn>>

(***************************************************************************)
(* Lines 242-261 and the rest of the for body, lines 391-395.              *)
(***************************************************************************)
Return ==
    /\ pc = "post"
    /\ LET rv == BeamwidthsReturn(roi, moments)
       IN /\ ret' = rv
          /\ beam_stats' = Append(beam_stats,
                 [d4x |-> rv.beamwidths[1], d4y |-> rv.beamwidths[2], file |-> files[k]])
          /\ img_roi' = Append(img_roi, rv.roi)
    /\ k' = k + 1
    /\ pc' = "for"
    /\ UNCHANGED <<files, position, z, disk, fitx, fity, error>>
    /\ UNCHANGED <<full_data, roi, roi_new, d0x, d0y, errx, erry, itN, moments, crop, printed>>
    /\ UNCHANGED fn

(***************************************************************************)
(* Lines 402-407: the two fits, x first; an exception is not caught.       *)
(***************************************************************************)
d4x == [i \in DOMAIN beam_stats |-> beam_stats[i].d4x]
d4y == [i \in DOMAIN beam_stats |-> beam_stats[i].d4y]

FitX ==
    /\ pc = "fitx"
    /\ \E cf \in FitOutcomes :
          LET out == fit_M2(d4x, z, cf)
          IN /\ fitx' = [cf |-> cf, out |-> out]
             /\ IF out.status = "raised"
                THEN pc' = "raised" /\ error' = out.exc
                ELSE pc' = "fity" /\ error' = error
    /\ UNCHANGED <<files, position, z, disk, k, beam_stats, img_roi, fity>>
    /\ UNCHANGED <<loopVars, fn>>

FitY ==
    /\ pc = "fity"
    /\ \E cf \in FitOutcomes :
          LET out == fit_M2(d4y, z, cf)
          IN /\ fity' = [cf |-> cf, out |-> out]
             /\ IF out.status = "raised"
                THEN pc' = "raised" /\ error' = out.exc
                ELSE pc' = "plot" /\ error' = error
    /\ UNCHANGED <<files, position, z, disk, k, beam_stats, img_roi, fitx>>
    /\ UNCHANGED <<loopVars, fn>>

Next ==
    \/ CheckInputs
    \/ Sort
    \/ ForNext
    \/ WhileIter
    \/ WhileExit
    \/ Return
    \/ FitX
    \/ FitY

Spec == Init /\ [][Next]_vars

(***************************************************************************)
(* get_roi and calculate_2D_moments called directly: the frame and the     *)
(* requested ROI are drawn from bounded sets, get_roi is applied to them   *)
(* and calculate_2D_moments to the sub-array it returns.                   *)
(***************************************************************************)
MaxDim == 3
MaxCentre == 4
MaxExtent == 8

\* frames of every shape up to MaxDim x MaxDim: blank, or each pixel
\* holding its own index
FnFrames ==
    {[rows |-> h, cols |-> w, px |-> [p \in Cells(h, w) |-> v * (p[1] * w + p[2])]] :
        h \in 2 .. MaxDim, w \in 2 .. MaxDim, v \in {0, 1}}

\* centres and extents in half pixels, negative, zero, oversized, or NaN
RoiCentres == {NaN} \cup {c * (Scale \div 2) : c \in (-MaxCentre) .. MaxCentre}
RoiExtents == {NaN} \cup {e * (Scale \div 2) : e \in (-2) .. MaxExtent}

InitFn ==
    /\ pc = "off"
    /\ files = <<>>
    /\ position = <<>>
    /\ disk = <<>>
    /\ z = <<>>
    /\ k = 1
    /\ beam_stats = <<>>
    /\ img_roi = <<>>
    /\ fitx = None
    /\ fity = None
    /\ error = "none"
    /\ LoopIdle
    /\ \E d \in FnFrames, x0 \in RoiCentres, w \in RoiExtents,
          y0 \in RoiCentres, h \in RoiExtents :
          fn = [pc |-> "call", data |-> d, roi |-> <<x0, w, y0, h>>,
                out |-> NoCrop, mom |-> [exc |-> "none", m |-> <<>>]]

FnGetRoi ==
    /\ fn.pc = "call"
    /\ fn' = [fn EXCEPT !.pc = "roi", !.out = get_roi(fn.data, fn.roi)]
    /\ UNCHANGED <<pipeVars, loopVars>>

FnMoments ==
    /\ fn.pc = "roi"
    /\ fn' = [fn EXCEPT !.pc = "done", !.mom = calculate_2D_moments(fn.out.arr)]
    /\ UNCHANGED <<pipeVars, loopVars>>

NextFn ==
    \/ FnGetRoi
    \/ FnMoments

SpecFn == InitFn /\ [][NextFn]_vars

(***************************************************************************)
(* Properties                                                              *)
(***************************************************************************)
FnCalled == fn.pc \in {"roi", "done"}

\* C1: for every frame of at least 2 x 2 and every requested ROI, get_roi
\* returns at least one row and one column, and the slice it takes is
\* integral with 0 <= left < left+width <= W and
\* 0 <= bottom < bottom+height <= H.
C1_RoiNonEmptyInBounds ==
    FnCalled =>
        /\ fn.out.arr.rows >= 1
        /\ fn.out.arr.cols >= 1
        /\ 0 <= fn.out.left
        /\ fn.out.left < fn.out.left + fn.out.width
        /\ fn.out.left + fn.out.width <= fn.data.cols
        /\ 0 <= fn.out.bottom
        /\ fn.out.bottom < fn.out.bottom + fn.out.height
        /\ fn.out.bottom + fn.out.height <= fn.data.rows

\* the loop of calculate_beamwidths has been left, normally or by an
\* exception raised in its body
LoopLeft ==
    \/ pc = "post"
    \/ pc = "raised" /\ full_data # NoArr /\ fitx = None

\* C2: the refinement loop ends after at least 1 and at most 5 iterations,
\* and it ends before the fifth only after an iteration that left both
\* relative changes within the tolerance.
C2_LoopBounded ==
    LoopLeft =>
        /\ itN >= 1
        /\ itN <= it_limit
        /\ itN < it_limit => (FLe(errx, error_limit) /\ FLe(erry, error_limit))

\* the call that just returned stopped at the iteration cap with a relative
\* change still above the tolerance
ReturnedAtCap ==
    /\ pc = "for"
    /\ ret # None
    /\ itN = it_limit
    /\ LoopCondition(errx, erry)

\* C3: a call that hits the cap without meeting the tolerance returns the
\* last iterate together with a convergence flag that marks it as
\* non-converged.
C3_NonConvergedFlagged ==
    ReturnedAtCap =>
        /\ ret.roi = roi
        /\ ret.moments = PhysMoments(moments)
        /\ "converged" \in DOMAIN ret
        /\ ret.converged = FALSE

\* C4: calculate_2D_moments on an array of zero total intensity ends in a
\* failure and returns no moments.
C4_ZeroIntensityFails ==
    (fn.pc = "done" /\ TotalIntensity(fn.out.arr) = 0) => fn.mom.exc # "none"

FitsDone == {f \in {fitx, fity} : f # None}

\* C5: when the fitted coefficient c is zero, fit_M2 ends in the designated
\* numeric-edge-case report, reached without evaluating a division by c.
C5_CollimatedReported ==
    \A f \in FitsDone :
        (f.cf.ok /\ f.cf.c = 0 /\ f.out.line # 160) => f.out.status = "edge_case"

Ascending(zz) == \A i, j \in DOMAIN zz : i < j => zz[i] <= zz[j]

\* at the calls of fit_M2: z is ascending, and the i-th diameter was
\* measured on the i-th file, whose listed position is the i-th z
PairedAtFit ==
    pc \in {"fitx", "fity"} =>
        /\ Len(beam_stats) = Len(z)
        /\ Ascending(z)
        /\ \A i \in DOMAIN z :
              /\ beam_stats[i].file = files[i]
              /\ z[i] = read_position(position)[beam_stats[i].file]

\* C6: z and files are permuted together once, before any frame is
\* processed, and never again; when fit_M2 is called the i-th diameter
\* belongs to the frame at the i-th element of the ascending z.
C6_SortedOncePaired ==
    /\ []PairedAtFit
    /\ [][pc \notin {"check", "sort"} => (z' = z /\ files' = files)]_vars

\* two files listed out of order have been sorted and measured
C6_Witness ==
    /\ pc = "fitx"
    /\ Len(z) >= 2
    /\ position[1] > position[2]

\* C7: a failure of the x fit leaves the y fit run and its result produced.
C7_AxisFailureConfined ==
    (pc = "raised" /\ fitx # None /\ fitx.out.status = "raised") => fity # None

\* C8: after every iteration the next ROI centre is the centroid of the
\* cropped array plus the origin at which get_roi cropped it, and the next
\* width and height are 3 times the current diameters.
C8_NextRoiFromCrop ==
    (pc \in {"while", "post"} /\ itN >= 1) =>
        /\ roi_new[1] = FAdd(moments[1], crop.left * Scale)
        /\ roi_new[3] = FAdd(moments[2], crop.bottom * Scale)
        /\ roi_new[2] = FMul3(d0x)
        /\ roi_new[4] = FMul3(d0y)

\* whole pixels from 0 up to a right (top) edge e on an axis of length n
PixelsUpTo(e, n) ==
    IF e >= n * Scale THEN n ELSE IF e <= 0 THEN 0 ELSE e \div Scale

\* the rule of C9 on one axis: requested centre c and extent ext, both
\* finite, with the lower edge at or below 0
ClampedLow(c, ext) == ~IsNaN(c) /\ ~IsNaN(ext) /\ c - FHalf(ext) <= 0
UpperEdge(c, ext) == c - FHalf(ext) + ext

\* C9: a request whose left edge is <= 0 yields the columns from 0 up to
\* the requested right edge, or up to the frame width when the edge lies
\* beyond it; likewise for rows.
C9_ClampKeepsFarEdge ==
    FnCalled =>
        /\ ClampedLow(fn.roi[1], fn.roi[2]) =>
              /\ fn.out.left = 0
              /\ fn.out.arr.cols = PixelsUpTo(UpperEdge(fn.roi[1], fn.roi[2]), fn.data.cols)
        /\ ClampedLow(fn.roi[3], fn.roi[4]) =>
              /\ fn.out.bottom = 0
              /\ fn.out.arr.rows = PixelsUpTo(UpperEdge(fn.roi[3], fn.roi[4]), fn.data.rows)

\* C10: when both relative changes are within the tolerance after the last
\* executed iteration, the "exceeded iteration" notice has not been printed.
C10_NoticeOnlyIfNotConverged ==
    (pc = "post" /\ FLe(errx, error_limit) /\ FLe(erry, error_limit)) => ~printed

====
